---- MODULE Spec2Model ----
(***************************************************************************)
(* Limit-order escrow contract (contracts/limit-order): the Balance        *)
(* ledger, the Intent registry and the settlement engine, together with    *)
(* the token contracts the escrow moves funds through.                     *)
(*                                                                         *)
(* One action per contract entry point.  A call that returns Err or that   *)
(* traps in the host (failed require_auth, failed token transfer, checked  *)
(* arithmetic overflow) is rolled back by the host: the persisted state    *)
(* is left as it was and only the outcome of the call is recorded.         *)
(***************************************************************************)
EXTENDS Integers, Sequences, FiniteSets, TLC

\* ------------------------------------------------------------------ bounds
MaxIntents == 2      \* create_intent is offered while COUNTER < MaxIntents
MaxTime    == 2      \* the ledger timestamp runs over 0..MaxTime
Mint       == 4      \* units of a token an initial holder starts with

\* ------------------------------------------------------- program constants
PRICE_SCALE == 10000000

\* --------------------------------------------------------------- universes
Addresses   == {"u1", "u2"}          \* user accounts (creator, executor, admin)
Escrow      == "escrow"              \* e.current_contract_address()
Holders     == Addresses \cup {Escrow}
Tokens      == {"A", "B"}            \* token contract addresses
ContractIds == {"c1", "c2"}          \* router / oracle contract addresses

InitialHoldings == { << "u1", "A" >>, << "u2", "B" >> }

\* Option<T>: None is the empty sequence, Some(x) the one-element sequence.
None    == << >>
Some(x) == << x >>

\* ------------------------------------------------------------------- state
VARIABLES
    balances,      \* persistent ("BALANCE", user, token) -> Balance
    intents,       \* persistent ("INTENT", id) -> Intent
    counter,       \* instance COUNTER, Option<u64>
    userIntents,   \* persistent ("USER_INT", user) -> Vec<u64>
    admin,         \* instance ADMIN
    router,        \* instance ROUTER
    oracle,        \* instance ORACLE
    tok,           \* token contracts: (holder, token) -> balance
    now,           \* e.ledger().timestamp()
    last           \* the last call: operation, caller, arguments, result

store == << balances, intents, counter, userIntents, admin, router, oracle >>
vars  == << balances, intents, counter, userIntents, admin, router, oracle,
            tok, now, last >>

\* ------------------------------------------------- checked i128 arithmetic
\* The contract's amounts are i128 and its arithmetic is checked: a result
\* outside the type's range traps.  IntMax stands for i128::MAX, scaled to
\* the model's integers.
IntMax == 2000000000

AddOverflows(a, b) == a > 0 /\ b > IntMax - a
MulOverflows(a, b) == a > 0 /\ b > 0 /\ a > IntMax \div b

\* ------------------------------------------------------------- result codes
Ok == "Ok"
ContractErrors ==
    { "IntentNotFound", "IntentAlreadyExecuted", "IntentCancelled",
      "IntentExpired", "OnlyCreatorCanCancel", "InsufficientBalance",
      "PriceConditionNotMet", "InvalidPrice", "InvalidAmount", "InvalidToken",
      "Unauthorized", "IntentStillActive", "TransferFailed",
      "MinBuyAmountNotMet" }
\* Host traps: the call is aborted by the host, not by a returned Error.
HostAuthError     == "HostAuthError"        \* require_auth not satisfied
HostTransferError == "HostTransferError"    \* token transfer refused
HostOverflow      == "HostOverflow"         \* checked arithmetic overflow
HostTraps == { HostAuthError, HostTransferError, HostOverflow }

\* ------------------------------------------------------------------ storage
ZeroBalance == [available |-> 0, locked |-> 0]

get_balance(bal, user, token) ==
    IF << user, token >> \in DOMAIN bal THEN bal[<< user, token >>]
                                        ELSE ZeroBalance

\* Variant: the written record replaces the whole ledger.
set_balance_OnlyKey(bal, user, token, b) ==
    [k \in {<< user, token >>} |-> b]
set_balance(bal, user, token, b) ==
    [k \in DOMAIN bal \cup {<< user, token >>} |->
        IF k = << user, token >> THEN b ELSE bal[k]]

get_intent(its, id) == IF id \in DOMAIN its THEN Some(its[id]) ELSE None

set_intent(its, id, intent) ==
    [k \in DOMAIN its \cup {id} |-> IF k = id THEN intent ELSE its[k]]

\* get_next_intent_id returns the counter (0 when unset) and stores counter + 1
CounterValue(c) == IF c = None THEN 0 ELSE c[1]
\* Variant: the counter is written back without being incremented.
NextCounter_Stuck(c) == Some(CounterValue(c))
NextCounter(c)  == Some(CounterValue(c) + 1)

get_user_intents(ui, user) == IF user \in DOMAIN ui THEN ui[user] ELSE << >>

\* Variant: the new id is put at the front of the index.
add_user_intent_Prepend(ui, user, id) ==
    IF user \in DOMAIN ui
    THEN [ui EXCEPT ![user] = << id >> \o @]
    ELSE ui @@ (user :> << id >>)
add_user_intent(ui, user, id) ==
    [k \in DOMAIN ui \cup {user} |->
        IF k = user THEN Append(get_user_intents(ui, user), id) ELSE ui[k]]

\* --------------------------------------------------- host: require_auth
\* A call is signed by one address, `caller`; a.require_auth() is satisfied
\* for the signer, and for the contract itself when it is the invoker.
Authorized(caller, a) == a = caller \/ a = Escrow

\* ----------------------------------------------------- token contracts
\* token::Client::transfer(from, to, amount): refused (trap) for a negative
\* amount or an insufficient balance of `from`; otherwise moves the amount.
CanTransfer(tk, token, from, amount) ==
    amount >= 0 /\ tk[<< from, token >>] >= amount

Transfer(tk, token, from, to, amount) ==
    [tk EXCEPT ![<< from, token >>] = @ - amount,
               ![<< to, token >>]   = @ + amount]

\* ----------------------------------------------------------- call records
Call(op, caller, args, result, ret) ==
    [op |-> op, caller |-> caller, args |-> args, result |-> result, ret |-> ret]

\* No call is being reported: the previous outcome has been delivered.
NoCall == Call("none", "none", << >>, Ok, None)

\* A call that fails (returned Err, or host trap) is rolled back as a whole.
Fails(op, caller, args, result) ==
    /\ last' = Call(op, caller, args, result, None)
    /\ UNCHANGED << store, tok, now >>

\* ------------------------------------------------------------ initial state
\* __constructor(admin, router, oracle): the three instance entries are set,
\* nothing else is stored.  The token contracts start with u1 holding Mint
\* units of A and u2 holding Mint units of B.
Init ==
    \E a \in {"u1"}, r \in {"c1"}, o \in {"c1"} :
        /\ balances = << >>
        /\ intents = << >>
        /\ counter = None
        /\ userIntents = << >>
        /\ admin = Some(a)
        /\ router = Some(r)
        /\ oracle = Some(o)
        /\ tok = [k \in Holders \X Tokens |->
                    IF k \in InitialHoldings THEN Mint ELSE 0]
        /\ now = 0
        /\ last = Call("constructor", a, [admin |-> a, router |-> r, oracle |-> o],
                       Ok, None)

\* ------------------------------------------------------------------ deposit
\* Variant: a deposit is credited to the locked balance.
DepositCredit_ToLocked(b, amount) == [b EXCEPT !.locked = @ + amount]
DepositCredit(b, amount) == [b EXCEPT !.available = @ + amount]

DepositResult(caller, token, amount, from) ==
    IF amount <= 0 THEN "InvalidAmount"
    ELSE IF ~Authorized(caller, from) THEN HostAuthError
    ELSE IF ~CanTransfer(tok, token, from, amount) THEN HostTransferError
    ELSE IF AddOverflows(get_balance(balances, from, token).available, amount)
         THEN HostOverflow
    ELSE Ok

Deposit(caller, token, amount, from) ==
    LET args == [token |-> token, amount |-> amount, from |-> from]
        res  == DepositResult(caller, token, amount, from)
    IN  IF res # Ok THEN Fails("deposit", caller, args, res)
        ELSE /\ tok' = Transfer(tok, token, from, Escrow, amount)
             /\ balances' = set_balance(balances, from, token,
                    DepositCredit(get_balance(balances, from, token), amount))
             /\ last' = Call("deposit", caller, args, Ok, None)
             /\ UNCHANGED << intents, counter, userIntents, admin, router,
                             oracle, now >>

\* ----------------------------------------------------------------- withdraw
\* Variant: the transfer out is made but the balance is not debited.
WithdrawDebit_Forgotten(b, amount) == b
WithdrawDebit(b, amount) == [b EXCEPT !.available = @ - amount]


\* Variant: no check of the available balance.
WithdrawResult_NoBalanceCheck(caller, token, amount, to) ==
    IF amount <= 0 THEN "InvalidAmount"
    ELSE IF ~Authorized(caller, to) THEN HostAuthError
    ELSE IF ~CanTransfer(tok, token, Escrow, amount) THEN HostTransferError
    ELSE Ok

\* Variant: locked funds count towards what may be withdrawn.
WithdrawResult_CountsLocked(caller, token, amount, to) ==
    IF amount <= 0 THEN "InvalidAmount"
    ELSE IF ~Authorized(caller, to) THEN HostAuthError
    ELSE IF get_balance(balances, to, token).available
                + get_balance(balances, to, token).locked < amount
         THEN "InsufficientBalance"
    ELSE IF ~CanTransfer(tok, token, Escrow, amount) THEN HostTransferError
    ELSE Ok
WithdrawResult(caller, token, amount, to) ==
    IF amount <= 0 THEN "InvalidAmount"
    ELSE IF ~Authorized(caller, to) THEN HostAuthError
    ELSE IF get_balance(balances, to, token).available < amount
         THEN "InsufficientBalance"
    ELSE IF ~CanTransfer(tok, token, Escrow, amount) THEN HostTransferError
    ELSE Ok

Withdraw(caller, token, amount, to) ==
    LET args == [token |-> token, amount |-> amount, to |-> to]
        res  == WithdrawResult(caller, token, amount, to)
    IN  IF res # Ok THEN Fails("withdraw", caller, args, res)
        ELSE /\ balances' = set_balance(balances, to, token,
                    WithdrawDebit(get_balance(balances, to, token), amount))
             /\ tok' = Transfer(tok, token, Escrow, to, amount)
             /\ last' = Call("withdraw", caller, args, Ok, None)
             /\ UNCHANGED << intents, counter, userIntents, admin, router,
                             oracle, now >>

\* ------------------------------------------------------------ create_intent
\* Variant: the funds leave available but are not added to locked.
LockFunds_NoLock(b, total) == [b EXCEPT !.available = @ - total]
LockFunds(b, total) ==
    [b EXCEPT !.available = @ - total, !.locked = @ + total]

NewIntent(id, creator, sell_token, sell_amount, buy_token, min_buy_amount, target_price, incentive, expiry) ==
    [ id |-> id, creator |-> creator,
      sell_token |-> sell_token, sell_amount |-> sell_amount,
      buy_token |-> buy_token, min_buy_amount |-> min_buy_amount,
      target_price |-> target_price, incentive |-> incentive,
      expiry |-> expiry, status |-> "Active",
      executor |-> None, actual_buy_amount |-> None ]


\* Variant: locked funds count towards the funds an intent may reserve.
CreateIntentResult_CountsLocked(caller, creator, sell_token, sell_amount, buy_token, min_buy_amount, target_price, incentive, expiry) ==
    IF ~Authorized(caller, creator) THEN HostAuthError
    ELSE IF sell_amount <= 0 \/ min_buy_amount <= 0 THEN "InvalidAmount"
    ELSE IF target_price <= 0 THEN "InvalidPrice"
    ELSE IF incentive < 0 \/ incentive > sell_amount THEN "InvalidAmount"
    ELSE IF expiry <= now THEN "IntentExpired"
    ELSE IF AddOverflows(sell_amount, incentive) THEN HostOverflow
    ELSE IF get_balance(balances, creator, sell_token).available
                + get_balance(balances, creator, sell_token).locked
                < sell_amount + incentive
         THEN "InsufficientBalance"
    ELSE IF AddOverflows(get_balance(balances, creator, sell_token).locked,
                         sell_amount + incentive)
         THEN HostOverflow
    ELSE Ok

\* Variant: the incentive is not validated.
CreateIntentResult_NoIncentiveCheck(caller, creator, sell_token, sell_amount, buy_token, min_buy_amount, target_price, incentive, expiry) ==
    IF ~Authorized(caller, creator) THEN HostAuthError
    ELSE IF sell_amount <= 0 \/ min_buy_amount <= 0 THEN "InvalidAmount"
    ELSE IF target_price <= 0 THEN "InvalidPrice"
    ELSE IF expiry <= now THEN "IntentExpired"
    ELSE IF AddOverflows(sell_amount, incentive) THEN HostOverflow
    ELSE IF get_balance(balances, creator, sell_token).available
                < sell_amount + incentive
         THEN "InsufficientBalance"
    ELSE IF AddOverflows(get_balance(balances, creator, sell_token).locked,
                         sell_amount + incentive)
         THEN HostOverflow
    ELSE Ok
CreateIntentResult(caller, creator, sell_token, sell_amount, buy_token, min_buy_amount, target_price, incentive, expiry) ==
    IF ~Authorized(caller, creator) THEN HostAuthError
    ELSE IF sell_amount <= 0 \/ min_buy_amount <= 0 THEN "InvalidAmount"
    ELSE IF target_price <= 0 THEN "InvalidPrice"
    ELSE IF incentive < 0 \/ incentive > sell_amount THEN "InvalidAmount"
    ELSE IF expiry <= now THEN "IntentExpired"
    ELSE IF AddOverflows(sell_amount, incentive) THEN HostOverflow
    ELSE IF get_balance(balances, creator, sell_token).available
                < sell_amount + incentive
         THEN "InsufficientBalance"
    ELSE IF AddOverflows(get_balance(balances, creator, sell_token).locked,
                         sell_amount + incentive)
         THEN HostOverflow
    ELSE Ok

CreateIntent(caller, creator, sell_token, sell_amount, buy_token, min_buy_amount, target_price, incentive, expiry) ==
    LET args == [creator |-> creator, sell_token |-> sell_token,
                 sell_amount |-> sell_amount, buy_token |-> buy_token,
                 min_buy_amount |-> min_buy_amount,
                 target_price |-> target_price, incentive |-> incentive,
                 expiry |-> expiry]
        res  == CreateIntentResult(caller, creator, sell_token, sell_amount,
                    buy_token, min_buy_amount, target_price, incentive, expiry)
        total_required == sell_amount + incentive
        intent_id == CounterValue(counter)
    IN  IF res # Ok THEN Fails("create_intent", caller, args, res)
        ELSE /\ intent_id < MaxIntents
             /\ balances' = set_balance(balances, creator, sell_token,
                    LockFunds(get_balance(balances, creator, sell_token),
                              total_required))
             /\ counter' = NextCounter(counter)
             /\ intents' = set_intent(intents, intent_id,
                    NewIntent(intent_id, creator, sell_token, sell_amount,
                              buy_token, min_buy_amount, target_price,
                              incentive, expiry))
             /\ userIntents' = add_user_intent(userIntents, creator, intent_id)
             /\ last' = Call("create_intent", caller, args, Ok, Some(intent_id))
             /\ UNCHANGED << admin, router, oracle, tok, now >>

\* ----------------------------------------------------------- execute_intent
\* actual_price = (buy_amount * PRICE_SCALE) / intent.sell_amount; both
\* operands are positive where it is evaluated, so i128 division is floor.
\* Variant: the achieved price is rounded up instead of down.
actual_price_RoundsUp(buy_amount, sell_amount) ==
    (buy_amount * PRICE_SCALE + sell_amount - 1) \div sell_amount
actual_price(buy_amount, sell_amount) ==
    (buy_amount * PRICE_SCALE) \div sell_amount

\* The three transfers, in the code's order; each sees the balances the
\* previous one left.
AfterSellLeg(tk, intent, executor) ==
    Transfer(tk, intent.sell_token, Escrow, executor, intent.sell_amount)
AfterBuyLeg(tk, intent, executor, buy_amount) ==
    Transfer(AfterSellLeg(tk, intent, executor),
             intent.buy_token, executor, intent.creator, buy_amount)
\* Variant: the incentive is never paid out.
AfterIncentiveLeg_Skipped(tk, intent, executor, buy_amount) ==
    AfterBuyLeg(tk, intent, executor, buy_amount)
AfterIncentiveLeg(tk, intent, executor, buy_amount) ==
    Transfer(AfterBuyLeg(tk, intent, executor, buy_amount),
             intent.sell_token, Escrow, executor, intent.incentive)


\* Variant: a transfer that cannot be made does not stop the settlement.
TransfersResult_Unchecked(tk, intent, executor, buy_amount) == Ok
TransfersResult(tk, intent, executor, buy_amount) ==
    IF ~CanTransfer(tk, intent.sell_token, Escrow, intent.sell_amount)
        THEN HostTransferError
    ELSE IF ~CanTransfer(AfterSellLeg(tk, intent, executor),
                         intent.buy_token, executor, buy_amount)
        THEN HostTransferError
    ELSE IF ~CanTransfer(AfterBuyLeg(tk, intent, executor, buy_amount),
                         intent.sell_token, Escrow, intent.incentive)
        THEN HostTransferError
    ELSE Ok

\* Variant: the lock is not released at settlement.
SpendLocked_KeepsLock(b, total) == b
SpendLocked(b, total) == [b EXCEPT !.locked = @ - total]


\* Variant: the amount received is not recorded.
MarkExecuted_NoAmount(intent, executor, buy_amount) ==
    [intent EXCEPT !.status = "Executed", !.executor = Some(executor)]
MarkExecuted(intent, executor, buy_amount) ==
    [intent EXCEPT !.status = "Executed",
                   !.executor = Some(executor),
                   !.actual_buy_amount = Some(buy_amount)]


\* Variant: no check that the intent is Active.
ExecuteIntentResult_NoStatusCheck(caller, intent_id, executor, buy_amount) ==
    IF ~Authorized(caller, executor) THEN HostAuthError
    ELSE IF get_intent(intents, intent_id) = None THEN "IntentNotFound"
    ELSE LET intent == intents[intent_id] IN
        IF now > intent.expiry THEN "IntentExpired"
        ELSE IF buy_amount < intent.min_buy_amount THEN "MinBuyAmountNotMet"
        ELSE IF MulOverflows(buy_amount, PRICE_SCALE) THEN HostOverflow
        ELSE IF actual_price(buy_amount, intent.sell_amount) < intent.target_price
             THEN "PriceConditionNotMet"
        ELSE TransfersResult(tok, intent, executor, buy_amount)

\* Variant: the price is checked before the minimum buy amount.
ExecuteIntentResult_PriceFirst(caller, intent_id, executor, buy_amount) ==
    IF ~Authorized(caller, executor) THEN HostAuthError
    ELSE IF get_intent(intents, intent_id) = None THEN "IntentNotFound"
    ELSE LET intent == intents[intent_id] IN
        IF intent.status # "Active" THEN "IntentAlreadyExecuted"
        ELSE IF now > intent.expiry THEN "IntentExpired"
        ELSE IF MulOverflows(buy_amount, PRICE_SCALE) THEN HostOverflow
        ELSE IF actual_price(buy_amount, intent.sell_amount) < intent.target_price
             THEN "PriceConditionNotMet"
        ELSE IF buy_amount < intent.min_buy_amount THEN "MinBuyAmountNotMet"
        ELSE TransfersResult(tok, intent, executor, buy_amount)

\* Variant: an intent can no longer be executed at its expiry time.
ExecuteIntentResult_ExpiryInclusive(caller, intent_id, executor, buy_amount) ==
    IF ~Authorized(caller, executor) THEN HostAuthError
    ELSE IF get_intent(intents, intent_id) = None THEN "IntentNotFound"
    ELSE LET intent == intents[intent_id] IN
        IF intent.status # "Active" THEN "IntentAlreadyExecuted"
        ELSE IF now >= intent.expiry THEN "IntentExpired"
        ELSE IF buy_amount < intent.min_buy_amount THEN "MinBuyAmountNotMet"
        ELSE IF MulOverflows(buy_amount, PRICE_SCALE) THEN HostOverflow
        ELSE IF actual_price(buy_amount, intent.sell_amount) < intent.target_price
             THEN "PriceConditionNotMet"
        ELSE TransfersResult(tok, intent, executor, buy_amount)

\* Variant: the minimum buy amount is not checked.
ExecuteIntentResult_NoMinBuyCheck(caller, intent_id, executor, buy_amount) ==
    IF ~Authorized(caller, executor) THEN HostAuthError
    ELSE IF get_intent(intents, intent_id) = None THEN "IntentNotFound"
    ELSE LET intent == intents[intent_id] IN
        IF intent.status # "Active" THEN "IntentAlreadyExecuted"
        ELSE IF now > intent.expiry THEN "IntentExpired"
        ELSE IF MulOverflows(buy_amount, PRICE_SCALE) THEN HostOverflow
        ELSE IF actual_price(buy_amount, intent.sell_amount) < intent.target_price
             THEN "PriceConditionNotMet"
        ELSE TransfersResult(tok, intent, executor, buy_amount)
ExecuteIntentResult(caller, intent_id, executor, buy_amount) ==
    IF ~Authorized(caller, executor) THEN HostAuthError
    ELSE IF get_intent(intents, intent_id) = None THEN "IntentNotFound"
    ELSE LET intent == intents[intent_id] IN
        IF intent.status # "Active" THEN "IntentAlreadyExecuted"
        ELSE IF now > intent.expiry THEN "IntentExpired"
        ELSE IF buy_amount < intent.min_buy_amount THEN "MinBuyAmountNotMet"
        ELSE IF MulOverflows(buy_amount, PRICE_SCALE) THEN HostOverflow
        ELSE IF actual_price(buy_amount, intent.sell_amount) < intent.target_price
             THEN "PriceConditionNotMet"
        ELSE TransfersResult(tok, intent, executor, buy_amount)

ExecuteIntent(caller, intent_id, executor, buy_amount) ==
    LET args == [intent_id |-> intent_id, executor |-> executor,
                 buy_amount |-> buy_amount]
        res  == ExecuteIntentResult(caller, intent_id, executor, buy_amount)
    IN  IF res # Ok THEN Fails("execute_intent", caller, args, res)
        ELSE LET intent == intents[intent_id] IN
             /\ tok' = AfterIncentiveLeg(tok, intent, executor, buy_amount)
             /\ balances' = set_balance(balances, intent.creator, intent.sell_token,
                    SpendLocked(get_balance(balances, intent.creator,
                                            intent.sell_token),
                                intent.sell_amount + intent.incentive))
             /\ intents' = set_intent(intents, intent_id,
                    MarkExecuted(intent, executor, buy_amount))
             /\ last' = Call("execute_intent", caller, args, Ok, None)
             /\ UNCHANGED << counter, userIntents, admin, router, oracle, now >>

\* ------------------------------------------------------------ cancel_intent
\* Variant: the released funds are not credited to available.
UnlockFunds_Burns(b, total_locked) == [b EXCEPT !.locked = @ - total_locked]
UnlockFunds(b, total_locked) ==
    [b EXCEPT !.locked = @ - total_locked, !.available = @ + total_locked]

\* Variant: the cancelling creator is recorded in the executor field.
MarkCancelled_RecordsCanceller(intent) ==
    [intent EXCEPT !.status = "Cancelled", !.executor = Some(intent.creator)]
MarkCancelled(intent) == [intent EXCEPT !.status = "Cancelled"]


\* Variant: an intent whose expiry has passed can no longer be cancelled.
CancelIntentResult_RejectsExpired(caller, intent_id, creator) ==
    IF ~Authorized(caller, creator) THEN HostAuthError
    ELSE IF get_intent(intents, intent_id) = None THEN "IntentNotFound"
    ELSE LET intent == intents[intent_id] IN
        IF intent.creator # creator THEN "OnlyCreatorCanCancel"
        ELSE IF intent.status # "Active" THEN "IntentAlreadyExecuted"
        ELSE IF now > intent.expiry THEN "IntentExpired"
        ELSE IF AddOverflows(get_balance(balances, creator,
                                         intent.sell_token).available,
                             intent.sell_amount + intent.incentive)
             THEN HostOverflow
        ELSE Ok

\* Variant: no check that the intent is Active.
CancelIntentResult_NoStatusCheck(caller, intent_id, creator) ==
    IF ~Authorized(caller, creator) THEN HostAuthError
    ELSE IF get_intent(intents, intent_id) = None THEN "IntentNotFound"
    ELSE LET intent == intents[intent_id] IN
        IF intent.creator # creator THEN "OnlyCreatorCanCancel"
        ELSE IF AddOverflows(get_balance(balances, creator,
                                         intent.sell_token).available,
                             intent.sell_amount + intent.incentive)
             THEN HostOverflow
        ELSE Ok

\* Variant: the status is checked before the creator.
CancelIntentResult_StatusFirst(caller, intent_id, creator) ==
    IF ~Authorized(caller, creator) THEN HostAuthError
    ELSE IF get_intent(intents, intent_id) = None THEN "IntentNotFound"
    ELSE LET intent == intents[intent_id] IN
        IF intent.status # "Active" THEN "IntentAlreadyExecuted"
        ELSE IF intent.creator # creator THEN "OnlyCreatorCanCancel"
        ELSE IF AddOverflows(get_balance(balances, creator,
                                         intent.sell_token).available,
                             intent.sell_amount + intent.incentive)
             THEN HostOverflow
        ELSE Ok

\* Variant: anybody may cancel an intent.
CancelIntentResult_NoCreatorCheck(caller, intent_id, creator) ==
    IF ~Authorized(caller, creator) THEN HostAuthError
    ELSE IF get_intent(intents, intent_id) = None THEN "IntentNotFound"
    ELSE LET intent == intents[intent_id] IN
        IF intent.status # "Active" THEN "IntentAlreadyExecuted"
        ELSE IF AddOverflows(get_balance(balances, creator,
                                         intent.sell_token).available,
                             intent.sell_amount + intent.incentive)
             THEN HostOverflow
        ELSE Ok
CancelIntentResult(caller, intent_id, creator) ==
    IF ~Authorized(caller, creator) THEN HostAuthError
    ELSE IF get_intent(intents, intent_id) = None THEN "IntentNotFound"
    ELSE LET intent == intents[intent_id] IN
        IF intent.creator # creator THEN "OnlyCreatorCanCancel"
        ELSE IF intent.status # "Active" THEN "IntentAlreadyExecuted"
        ELSE IF AddOverflows(get_balance(balances, creator,
                                         intent.sell_token).available,
                             intent.sell_amount + intent.incentive)
             THEN HostOverflow
        ELSE Ok

CancelIntent(caller, intent_id, creator) ==
    LET args == [intent_id |-> intent_id, creator |-> creator]
        res  == CancelIntentResult(caller, intent_id, creator)
    IN  IF res # Ok THEN Fails("cancel_intent", caller, args, res)
        ELSE LET intent == intents[intent_id] IN
             /\ balances' = set_balance(balances, creator, intent.sell_token,
                    UnlockFunds(get_balance(balances, creator, intent.sell_token),
                                intent.sell_amount + intent.incentive))
             /\ intents' = set_intent(intents, intent_id, MarkCancelled(intent))
             /\ last' = Call("cancel_intent", caller, args, Ok, None)
             /\ UNCHANGED << counter, userIntents, admin, router, oracle,
                             tok, now >>

\* ------------------------------------------------------ admin_cancel_intent
\* Variant: the lock is released but the funds are not made available.
AdminUnlockFunds_NotReturned(b, total_locked) ==
    [b EXCEPT !.locked = @ - total_locked]
AdminUnlockFunds(b, total_locked) ==
    [b EXCEPT !.locked = @ - total_locked, !.available = @ + total_locked]

AdminMarkCancelled(intent) == [intent EXCEPT !.status = "Cancelled"]


\* Variant: no check that the intent is Active.
AdminCancelIntentResult_NoStatusCheck(caller, intent_id, adm) ==
    IF ~Authorized(caller, adm) THEN HostAuthError
    ELSE IF admin = None THEN "Unauthorized"
    ELSE IF adm # admin[1] THEN "Unauthorized"
    ELSE IF get_intent(intents, intent_id) = None THEN "IntentNotFound"
    ELSE LET intent == intents[intent_id] IN
        IF AddOverflows(get_balance(balances, intent.creator,
                                    intent.sell_token).available,
                        intent.sell_amount + intent.incentive)
           THEN HostOverflow
        ELSE Ok
AdminCancelIntentResult(caller, intent_id, adm) ==
    IF ~Authorized(caller, adm) THEN HostAuthError
    ELSE IF admin = None THEN "Unauthorized"
    ELSE IF adm # admin[1] THEN "Unauthorized"
    ELSE IF get_intent(intents, intent_id) = None THEN "IntentNotFound"
    ELSE LET intent == intents[intent_id] IN
        IF intent.status # "Active" THEN "IntentAlreadyExecuted"
        ELSE IF AddOverflows(get_balance(balances, intent.creator,
                                         intent.sell_token).available,
                             intent.sell_amount + intent.incentive)
             THEN HostOverflow
        ELSE Ok

AdminCancelIntent(caller, intent_id, adm) ==
    LET args == [intent_id |-> intent_id, admin |-> adm]
        res  == AdminCancelIntentResult(caller, intent_id, adm)
    IN  IF res # Ok THEN Fails("admin_cancel_intent", caller, args, res)
        ELSE LET intent == intents[intent_id] IN
             /\ balances' = set_balance(balances, intent.creator, intent.sell_token,
                    AdminUnlockFunds(get_balance(balances, intent.creator,
                                                 intent.sell_token),
                                     intent.sell_amount + intent.incentive))
             /\ intents' = set_intent(intents, intent_id, AdminMarkCancelled(intent))
             /\ last' = Call("admin_cancel_intent", caller, args, Ok, None)
             /\ UNCHANGED << counter, userIntents, admin, router, oracle,
                             tok, now >>

\* ---------------------------------------------------- set_router, set_oracle
SetRouterResult(caller, adm) ==
    IF ~Authorized(caller, adm) THEN HostAuthError
    ELSE IF admin = None THEN "Unauthorized"
    ELSE IF adm # admin[1] THEN "Unauthorized"
    ELSE Ok

\* Variant: the router is stored before the admin is checked, and a refusal
\* does not undo it.
SetRouter_WriteFirst(caller, adm, r) ==
    LET args == [admin |-> adm, router |-> r]
        res  == SetRouterResult(caller, adm)
    IN  /\ router' = IF res = HostAuthError THEN router ELSE Some(r)
        /\ last' = Call("set_router", caller, args, res, None)
        /\ UNCHANGED << balances, intents, counter, userIntents, admin,
                        oracle, tok, now >>
SetRouter(caller, adm, r) ==
    LET args == [admin |-> adm, router |-> r]
        res  == SetRouterResult(caller, adm)
    IN  IF res # Ok THEN Fails("set_router", caller, args, res)
        ELSE /\ router' = Some(r)
             /\ last' = Call("set_router", caller, args, Ok, None)
             /\ UNCHANGED << balances, intents, counter, userIntents, admin,
                             oracle, tok, now >>

\* Variant: any authorized caller may replace the oracle.
SetOracleResult_NoAdminCheck(caller, adm) ==
    IF ~Authorized(caller, adm) THEN HostAuthError ELSE Ok
SetOracleResult(caller, adm) ==
    IF ~Authorized(caller, adm) THEN HostAuthError
    ELSE IF admin = None THEN "Unauthorized"
    ELSE IF adm # admin[1] THEN "Unauthorized"
    ELSE Ok

\* Variant: the new address is written to the ADMIN entry.
SetOracle_WritesAdmin(caller, adm, o) ==
    LET args == [admin |-> adm, oracle |-> o]
        res  == SetOracleResult(caller, adm)
    IN  IF res # Ok THEN Fails("set_oracle", caller, args, res)
        ELSE /\ admin' = Some(o)
             /\ last' = Call("set_oracle", caller, args, Ok, None)
             /\ UNCHANGED << balances, intents, counter, userIntents, oracle,
                             router, tok, now >>
SetOracle(caller, adm, o) ==
    LET args == [admin |-> adm, oracle |-> o]
        res  == SetOracleResult(caller, adm)
    IN  IF res # Ok THEN Fails("set_oracle", caller, args, res)
        ELSE /\ oracle' = Some(o)
             /\ last' = Call("set_oracle", caller, args, Ok, None)
             /\ UNCHANGED << balances, intents, counter, userIntents, admin,
                             router, tok, now >>

\* ------------------------------------------------------------- ledger time
\* The ledger closes and its timestamp advances; no contract code runs.
Tick ==
    /\ last = NoCall
    /\ now < MaxTime
    /\ now' = now + 1
    /\ UNCHANGED << store, tok, last >>

\* The outcome of the last call has been delivered to its caller.  Calls are
\* serialized by the ledger: the next call starts from here.
Return ==
    /\ last # NoCall
    /\ last' = NoCall
    /\ UNCHANGED << store, tok, now >>

\* ----------------------------------------------------------- input domains
AmountInputs == {0, Mint}
ExpiryInputs == 0 .. (MaxTime - 1)
BuyAmounts   == 1 .. Mint \cup {IntMax \div PRICE_SCALE + 1}
IntentIds    == 0 .. (MaxIntents - 1)

\* The order terms offered to create_intent: <<sell_amount, incentive,
\* min_buy_amount, target_price>>.  6666667 is a price just above 2/3, which
\* the floor of 2 * PRICE_SCALE / 3 does not reach.
TwoThirdsUp == (2 * PRICE_SCALE) \div 3 + 1
ValidOrders ==
    { << 1, 1, 2, TwoThirdsUp >>, << 3, 0, 2, TwoThirdsUp >> }
InvalidOrders ==
    { << 0, 0, 2, TwoThirdsUp >>,        \* sell_amount <= 0
      << 1, 0, 0, TwoThirdsUp >>,        \* min_buy_amount <= 0
      << 1, 0, 2, 0 >>,                  \* target_price <= 0
      << 1, -1, 2, TwoThirdsUp >>,       \* incentive < 0
      << 1, 2, 2, TwoThirdsUp >>,        \* incentive > sell_amount
      << 0, -1, 0, 0 >>,                 \* every term invalid
      << IntMax, 1, 2, TwoThirdsUp >> }  \* sell_amount + incentive overflows

\* ---------------------------------------------------------- specification
DepositStep ==
    /\ last = NoCall
    /\ \E caller \in Addresses, token \in Tokens, amount \in AmountInputs,
          from \in Addresses : Deposit(caller, token, amount, from)
WithdrawStep ==
    /\ last = NoCall
    /\ \E caller \in Addresses, token \in Tokens, amount \in AmountInputs,
          to \in Addresses : Withdraw(caller, token, amount, to)
\* Invalid order terms are rejected before the tokens and the expiry are
\* looked at: they are offered for one choice of those.
CreateIntentStep ==
    /\ last = NoCall
    /\ \/ \E caller \in Addresses, creator \in Addresses,
             sell_token \in Tokens, buy_token \in Tokens,
             o \in ValidOrders, expiry \in ExpiryInputs :
               CreateIntent(caller, creator, sell_token, o[1], buy_token,
                            o[3], o[4], o[2], expiry)
       \/ \E caller \in Addresses, creator \in Addresses, o \in InvalidOrders :
               CreateIntent(caller, creator, "A", o[1], "B",
                            o[3], o[4], o[2], MaxTime)
ExecuteIntentStep ==
    /\ last = NoCall
    /\ \E caller \in Addresses, intent_id \in IntentIds, executor \in Addresses,
       buy_amount \in BuyAmounts :
        ExecuteIntent(caller, intent_id, executor, buy_amount)
CancelIntentStep ==
    /\ last = NoCall
    /\ \E caller \in Addresses, intent_id \in IntentIds, creator \in Addresses :
        CancelIntent(caller, intent_id, creator)
AdminCancelIntentStep ==
    /\ last = NoCall
    /\ \E caller \in Addresses, intent_id \in IntentIds, adm \in Addresses :
        AdminCancelIntent(caller, intent_id, adm)
SetRouterStep ==
    /\ last = NoCall
    /\ \E caller \in Addresses, adm \in Addresses, r \in ContractIds :
        SetRouter(caller, adm, r)
SetOracleStep ==
    /\ last = NoCall
    /\ \E caller \in Addresses, adm \in Addresses, o \in ContractIds :
        SetOracle(caller, adm, o)

\* The escrow and intent operations.
FundsNext ==
    \/ DepositStep
    \/ WithdrawStep
    \/ CreateIntentStep
    \/ ExecuteIntentStep
    \/ CancelIntentStep
    \/ AdminCancelIntentStep
    \/ Tick
    \/ Return


SpecFunds == Init /\ [][FundsNext]_vars


\* Deposits and withdrawals of every amount up to an initial holding, with
\* intents created and cancelled in between (no settlement, no passing of
\* time): the ledger of one user's funds.
LedgerAmounts == 0 .. Mint
DepositAnyStep ==
    /\ last = NoCall
    /\ \E caller \in Addresses, token \in Tokens, amount \in LedgerAmounts,
          from \in Addresses : Deposit(caller, token, amount, from)
WithdrawAnyStep ==
    /\ last = NoCall
    /\ \E caller \in Addresses, token \in Tokens, amount \in LedgerAmounts,
          to \in Addresses : Withdraw(caller, token, amount, to)
LedgerNext ==
    \/ DepositAnyStep
    \/ WithdrawAnyStep
    \/ CreateIntentStep
    \/ CancelIntentStep
    \/ Return
SpecLedger == Init /\ [][LedgerNext]_vars

\* --------------------------------------------------------- read operations
\* get_intent, get_balance and get_user_intents return what storage holds;
\* none of them calls require_auth.
GetIntent(caller, intent_id) ==
    /\ last' = Call("get_intent", caller, [intent_id |-> intent_id], Ok,
                    Some(get_intent(intents, intent_id)))
    /\ UNCHANGED << store, tok, now >>

GetBalance(caller, user, token) ==
    /\ last' = Call("get_balance", caller, [user |-> user, token |-> token], Ok,
                    Some(get_balance(balances, user, token)))
    /\ UNCHANGED << store, tok, now >>

GetUserIntents(caller, user) ==
    /\ last' = Call("get_user_intents", caller, [user |-> user], Ok,
                    Some(get_user_intents(userIntents, user)))
    /\ UNCHANGED << store, tok, now >>

\* The oracle is another contract: a call to it may trap, and its last
\* prices of the two assets may be missing.  Its decimals() reading is taken
\* to be 7, the scale of target_price.
OracleCallError == "OracleCallError"
OracleScale == PRICE_SCALE
OraclePrices == { None, Some(2), Some(3) }

\* oracle::check_price_trigger with use_twap = false.
check_price_trigger(sell_price, buy_price, trigger_price) ==
    IF sell_price = None \/ buy_price = None THEN << FALSE, 0 >>
    ELSE LET price_ratio == (sell_price[1] * OracleScale) \div buy_price[1]
         IN  << price_ratio >= trigger_price, price_ratio >>

CheckIntentExecutableResult(intent_id, answers, sell_price, buy_price) ==
    IF get_intent(intents, intent_id) = None THEN "IntentNotFound"
    ELSE LET intent == intents[intent_id] IN
        IF intent.status # "Active" THEN Ok
        ELSE IF now > intent.expiry THEN Ok
        ELSE IF oracle = None THEN "Unauthorized"
        ELSE IF ~answers THEN OracleCallError
        ELSE IF sell_price # None /\ buy_price # None
                /\ MulOverflows(sell_price[1], OracleScale) THEN HostOverflow
        ELSE IF MulOverflows(intent.sell_amount,
                    check_price_trigger(sell_price, buy_price,
                                        intent.target_price)[2])
             THEN HostOverflow
        ELSE Ok

\* Variant: the expiry is not looked at.
CheckIntentExecutableValue_IgnoresExpiry(intent_id, sell_price, buy_price) ==
    LET intent == intents[intent_id] IN
    IF intent.status # "Active" THEN << FALSE, 0 >>
    ELSE LET trigger == check_price_trigger(sell_price, buy_price,
                                            intent.target_price)
         IN  << trigger[1], (intent.sell_amount * trigger[2]) \div OracleScale >>
CheckIntentExecutableValue(intent_id, sell_price, buy_price) ==
    LET intent == intents[intent_id] IN
    IF intent.status # "Active" THEN << FALSE, 0 >>
    ELSE IF now > intent.expiry THEN << FALSE, 0 >>
    ELSE LET trigger == check_price_trigger(sell_price, buy_price,
                                            intent.target_price)
         IN  << trigger[1], (intent.sell_amount * trigger[2]) \div OracleScale >>

CheckIntentExecutable(caller, intent_id, answers, sell_price, buy_price) ==
    LET args == [intent_id |-> intent_id]
        res  == CheckIntentExecutableResult(intent_id, answers,
                                            sell_price, buy_price)
    IN  /\ last' = IF res # Ok
                   THEN Call("check_intent_executable", caller, args, res, None)
                   ELSE Call("check_intent_executable", caller, args, Ok,
                             Some(CheckIntentExecutableValue(intent_id,
                                        sell_price, buy_price)))
        /\ UNCHANGED << store, tok, now >>

GetIntentStep ==
    /\ last = NoCall
    /\ \E caller \in Addresses, intent_id \in IntentIds :
        GetIntent(caller, intent_id)
GetBalanceStep ==
    /\ last = NoCall
    /\ \E caller \in Addresses, user \in Addresses, token \in Tokens :
        GetBalance(caller, user, token)
GetUserIntentsStep ==
    /\ last = NoCall
    /\ \E caller \in Addresses, user \in Addresses :
        GetUserIntents(caller, user)
CheckIntentExecutableStep ==
    /\ last = NoCall
    /\ \E caller \in Addresses, intent_id \in IntentIds, answers \in BOOLEAN,
          sell_price \in OraclePrices, buy_price \in OraclePrices :
        CheckIntentExecutable(caller, intent_id, answers, sell_price, buy_price)

\* The fund and intent operations together with the reads.
ReadsNext ==
    \/ FundsNext
    \/ GetIntentStep
    \/ GetBalanceStep
    \/ GetUserIntentsStep
    \/ CheckIntentExecutableStep
SpecReads == Init /\ [][ReadsNext]_vars

\* Every operation of the contract.
Next ==
    \/ FundsNext
    \/ SetRouterStep
    \/ SetOracleStep
    \/ GetIntentStep
    \/ GetBalanceStep
    \/ GetUserIntentsStep
    \/ CheckIntentExecutableStep
Spec == Init /\ [][Next]_vars
\* ======================================================================
\* Properties
\* ======================================================================
Total(intent) == intent.sell_amount + intent.incentive

RECURSIVE SumTotals(_, _)
SumTotals(its, ids) ==
    IF ids = {} THEN 0
    ELSE LET id == CHOOSE x \in ids : TRUE
         IN  Total(its[id]) + SumTotals(its, ids \ {id})

ActiveIds(user, token) ==
    { id \in DOMAIN intents :
        /\ intents[id].creator = user
        /\ intents[id].sell_token = token
        /\ intents[id].status = "Active" }

RECURSIVE SumCustody(_, _, _)
SumCustody(bal, users, token) ==
    IF users = {} THEN 0
    ELSE LET u == CHOOSE x \in users : TRUE
         IN  get_balance(bal, u, token).available
             + get_balance(bal, u, token).locked
             + SumCustody(bal, users \ {u}, token)

Succeeded(op) == last.op = op /\ last.result = Ok

\* C1: for every (user, asset) the locked balance equals the sum of
\* sell_amount + incentive over the Active intents of that user selling that
\* asset; Executed and Cancelled intents contribute nothing.
C1_LockedIsSumOfActive ==
    \A u \in Addresses, t \in Tokens :
        get_balance(balances, u, t).locked = SumTotals(intents, ActiveIds(u, t))

\* Two intents of one user on one asset, one Executed and one still Active.
C1_Witness ==
    \E i \in DOMAIN intents, j \in DOMAIN intents :
        /\ intents[i].creator = intents[j].creator
        /\ intents[i].sell_token = intents[j].sell_token
        /\ intents[i].status = "Executed"
        /\ intents[j].status = "Active"
        /\ get_balance(balances, intents[j].creator,
                       intents[j].sell_token).locked = Total(intents[j])

\* C2: conservation of funds: the escrow's holding of each asset equals the
\* sum over all users of available + locked for that asset.
C2_Conservation ==
    \A t \in Tokens :
        tok[<< Escrow, t >>] = SumCustody(balances, Addresses, t)

\* An execution has paid out of the escrow, which still holds other funds.
C2_Witness ==
    /\ Succeeded("execute_intent")
    /\ \E t \in Tokens : tok[<< Escrow, t >>] > 0

\* C3: available and locked are never negative.
C3_NonNegative ==
    \A u \in Addresses, t \in Tokens :
        /\ get_balance(balances, u, t).available >= 0
        /\ get_balance(balances, u, t).locked >= 0

\* A creation has locked the whole available balance of its creator.
C3_Witness ==
    /\ Succeeded("create_intent")
    /\ LET b == get_balance(balances, last.args.creator, last.args.sell_token)
       IN  b.available = 0 /\ b.locked > 0

\* C4: an intent's status only moves Active -> Executed (by execute_intent)
\* or Active -> Cancelled (by cancel_intent or admin_cancel_intent); a status
\* that is Executed or Cancelled never changes, and no intent is removed.
C4_StatusStep ==
    \A id \in DOMAIN intents :
        /\ id \in DOMAIN intents'
        /\ intents'[id].status # intents[id].status =>
            /\ intents[id].status = "Active"
            /\ last'.result = Ok
            /\ last'.args.intent_id = id
            /\ \/ /\ intents'[id].status = "Executed"
                  /\ last'.op = "execute_intent"
               \/ /\ intents'[id].status = "Cancelled"
                  /\ last'.op \in {"cancel_intent", "admin_cancel_intent"}
C4_StatusMachine == [][C4_StatusStep]_vars

\* Both terminal states have been reached, one by the admin's cancel.
C4_Witness ==
    /\ Succeeded("admin_cancel_intent")
    /\ \E i \in DOMAIN intents, j \in DOMAIN intents :
        intents[i].status = "Executed" /\ intents[j].status = "Cancelled"

\* C5: of the execute_intent, cancel_intent and admin_cancel_intent calls on
\* one intent at most one succeeds: a call succeeds only on an Active intent
\* and leaves it not Active, taking sell_amount + incentive out of the
\* creator's locked balance once (to the executor, or back to available);
\* every call on an intent that is no longer Active fails and changes no
\* balance, and an execute_intent that passes the host's authorization
\* fails with IntentAlreadyExecuted.
IntentOps == {"execute_intent", "cancel_intent", "admin_cancel_intent"}

C5_Step ==
    (last'.op \in IntentOps /\ last'.args.intent_id \in DOMAIN intents) =>
        LET id     == last'.args.intent_id
            intent == intents[id]
            before == get_balance(balances, intent.creator, intent.sell_token)
            after  == get_balance(balances', intent.creator, intent.sell_token)
        IN  /\ intent.status # "Active" =>
                /\ last'.result # Ok
                /\ balances' = balances /\ tok' = tok /\ intents' = intents
                /\ (last'.op = "execute_intent"
                    /\ Authorized(last'.caller, last'.args.executor))
                        => last'.result = "IntentAlreadyExecuted"
            /\ last'.result = Ok =>
                /\ intent.status = "Active"
                /\ intents'[id].status # "Active"
                /\ after.locked = before.locked - Total(intent)
                /\ IF last'.op = "execute_intent"
                   THEN after.available = before.available
                   ELSE after.available = before.available + Total(intent)
C5_OneSuccess == [][C5_Step]_vars

\* A second execute_intent on an Executed intent has been refused.
C5_Witness ==
    /\ last.op = "execute_intent"
    /\ last.result = "IntentAlreadyExecuted"
    /\ intents[last.args.intent_id].status = "Executed"

\* C6: a call of deposit, withdraw, create_intent, execute_intent,
\* cancel_intent, admin_cancel_intent, set_router or set_oracle that does not
\* succeed leaves the persisted state as it was: balances, intents, id
\* counter, user indexes and configuration (and moves no token); a failed
\* execute_intent leaves an Active intent Active.
ContractOps ==
    { "deposit", "withdraw", "create_intent", "execute_intent",
      "cancel_intent", "admin_cancel_intent", "set_router", "set_oracle" }

C6_Step ==
    (last'.op \in ContractOps /\ last'.result # Ok) =>
        /\ balances' = balances
        /\ intents' = intents
        /\ counter' = counter
        /\ userIntents' = userIntents
        /\ admin' = admin /\ router' = router /\ oracle' = oracle
        /\ tok' = tok
        /\ (last'.op = "execute_intent"
            /\ last'.args.intent_id \in DOMAIN intents
            /\ intents[last'.args.intent_id].status = "Active")
                => intents'[last'.args.intent_id].status = "Active"
PassesChecks(intent, buy_amount) ==
    /\ intent.status = "Active"
    /\ now <= intent.expiry
    /\ buy_amount >= intent.min_buy_amount
    /\ ~MulOverflows(buy_amount, PRICE_SCALE)
    /\ (buy_amount * PRICE_SCALE) \div intent.sell_amount >= intent.target_price

ThreeTransfers(tk, intent, executor, buy_amount) ==
    Transfer(
        Transfer(
            Transfer(tk, intent.sell_token, Escrow, executor, intent.sell_amount),
            intent.buy_token, executor, intent.creator, buy_amount),
        intent.sell_token, Escrow, executor, intent.incentive)

AllLegsPossible(tk, intent, executor, buy_amount) ==
    LET t1 == Transfer(tk, intent.sell_token, Escrow, executor, intent.sell_amount)
        t2 == Transfer(t1, intent.buy_token, executor, intent.creator, buy_amount)
    IN  /\ CanTransfer(tk, intent.sell_token, Escrow, intent.sell_amount)
        /\ CanTransfer(t1, intent.buy_token, executor, buy_amount)
        /\ CanTransfer(t2, intent.sell_token, Escrow, intent.incentive)

C7_Step ==
    (last'.op = "execute_intent" /\ last'.args.intent_id \in DOMAIN intents
        /\ Authorized(last'.caller, last'.args.executor)) =>
        LET id       == last'.args.intent_id
            intent   == intents[id]
            executor == last'.args.executor
            buy      == last'.args.buy_amount
            before   == get_balance(balances, intent.creator, intent.sell_token)
            after    == get_balance(balances', intent.creator, intent.sell_token)
        IN  /\ (PassesChecks(intent, buy)
                /\ ~AllLegsPossible(tok, intent, executor, buy)) =>
                    /\ last'.result # Ok
                    /\ tok' = tok
                    /\ balances' = balances
                    /\ intents'[id].status = "Active"
            /\ last'.result = Ok =>
                    /\ tok' = ThreeTransfers(tok, intent, executor, buy)
                    /\ after.locked = before.locked - Total(intent)
                    /\ intents'[id].status = "Executed"
C7_AllOrNothing == [][C7_Step]_vars

\* The executor could not deliver buy_amount although the escrow could have
\* paid the sell leg: the call was refused and the intent is still Active.
C7_Witness ==
    /\ last.op = "execute_intent"
    /\ last.result = HostTransferError
    /\ LET intent == intents[last.args.intent_id]
       IN  /\ intent.status = "Active"
           /\ CanTransfer(tok, intent.sell_token, Escrow, intent.sell_amount)
           /\ get_balance(balances, intent.creator, intent.sell_token).locked
                >= Total(intent)

\* C8: after a successful execute_intent(intent_id, executor, buy_amount) the
\* creator's locked balance in the sell asset is lower by sell_amount +
\* incentive, the creator's available balance is unchanged, the status is
\* Executed, the executor field is the call's executor and actual_buy_amount
\* is buy_amount.
C8_Step ==
    (last'.op = "execute_intent" /\ last'.result = Ok) =>
        LET id     == last'.args.intent_id
            intent == intents[id]
            before == get_balance(balances, intent.creator, intent.sell_token)
            after  == get_balance(balances', intent.creator, intent.sell_token)
        IN  /\ after.locked = before.locked - Total(intent)
            /\ after.available = before.available
            /\ intents'[id].status = "Executed"
            /\ intents'[id].executor = Some(last'.args.executor)
            /\ intents'[id].actual_buy_amount = Some(last'.args.buy_amount)
C8_ExecuteEffect == [][C8_Step]_vars

\* An execution of an intent with an incentive, whose creator keeps an
\* available balance.
C8_Witness ==
    /\ Succeeded("execute_intent")
    /\ LET intent == intents[last.args.intent_id]
       IN  /\ intent.incentive > 0
           /\ intent.executor = Some(last.args.executor)
           /\ get_balance(balances, intent.creator, intent.sell_token).available > 0

\* C9 (as stated): every successful execute_intent, whatever the creator,
\* the executor and the two assets, raises the creator's token balance of the
\* buy asset by buy_amount and the executor's token balance of the sell
\* asset by sell_amount + incentive.
C9_OriginalStep ==
    (last'.op = "execute_intent" /\ last'.result = Ok) =>
        LET intent   == intents[last'.args.intent_id]
            executor == last'.args.executor
            buy      == last'.args.buy_amount
        IN  /\ tok'[<<intent.creator, intent.buy_token>>]
                = tok[<<intent.creator, intent.buy_token>>] + buy
            /\ tok'[<<executor, intent.sell_token>>]
                = tok[<<executor, intent.sell_token>>] + Total(intent)
C9_Original == [][C9_OriginalStep]_vars

\* C9 (amended): when the executor is not the creator and the sell asset is
\* not the buy asset, a successful execute_intent raises the creator's token
\* balance of the buy asset by buy_amount and the executor's token balance of
\* the sell asset by sell_amount + incentive; in every case the escrow's
\* holding of the sell asset falls by sell_amount + incentive.
C9_AmendedStep ==
    (last'.op = "execute_intent" /\ last'.result = Ok) =>
        LET intent   == intents[last'.args.intent_id]
            executor == last'.args.executor
            buy      == last'.args.buy_amount
        IN  /\ tok'[<<Escrow, intent.sell_token>>]
                = tok[<<Escrow, intent.sell_token>>] - Total(intent)
            /\ (executor # intent.creator /\ intent.sell_token # intent.buy_token) =>
                /\ tok'[<<intent.creator, intent.buy_token>>]
                    = tok[<<intent.creator, intent.buy_token>>] + buy
                /\ tok'[<<executor, intent.sell_token>>]
                    = tok[<<executor, intent.sell_token>>] + Total(intent)
C9_Amended == [][C9_AmendedStep]_vars

\* An intent with an incentive has been executed by somebody other than its
\* creator, between two different assets.
C9_Witness ==
    /\ Succeeded("execute_intent")
    /\ LET intent == intents[last.args.intent_id]
       IN  /\ last.args.executor # intent.creator
           /\ intent.sell_token # intent.buy_token
           /\ intent.incentive > 0
           /\ tok[<<last.args.executor, intent.sell_token>>] >= Total(intent)

\* C10: after a successful create_intent the creator's available balance in
\* the sell asset is lower by sell_amount + incentive, the locked balance is
\* higher by the same amount, and the intent stored under the returned id is
\* Active with no executor and no actual_buy_amount.
C10_Step ==
    (last'.op = "create_intent" /\ last'.result = Ok) =>
        LET a      == last'.args
            id     == last'.ret[1]
            before == get_balance(balances, a.creator, a.sell_token)
            after  == get_balance(balances', a.creator, a.sell_token)
        IN  /\ after.available = before.available - (a.sell_amount + a.incentive)
            /\ after.locked = before.locked + (a.sell_amount + a.incentive)
            /\ id \notin DOMAIN intents
            /\ id \in DOMAIN intents'
            /\ intents'[id].id = id
            /\ intents'[id].creator = a.creator
            /\ intents'[id].sell_amount = a.sell_amount
            /\ intents'[id].incentive = a.incentive
            /\ intents'[id].status = "Active"
            /\ intents'[id].executor = None
            /\ intents'[id].actual_buy_amount = None
C10_CreateEffect == [][C10_Step]_vars

\* A second intent has just been created, with an incentive, out of an
\* available balance that it did not exhaust.
C10_Witness ==
    /\ Succeeded("create_intent")
    /\ last.ret = Some(1)
    /\ last.args.incentive > 0
    /\ intents[1].status = "Active"
    /\ get_balance(balances, last.args.creator, last.args.sell_token).available > 0

\* C11: create_intent with valid terms, an authorized creator and an expiry
\* in the future, but with less than sell_amount + incentive available
\* (locked funds do not count), fails with InsufficientBalance and leaves
\* available and locked unchanged, stores no intent, consumes no intent id
\* and does not extend the creator's intent index.
ValidTerms(a) ==
    /\ a.sell_amount > 0 /\ a.min_buy_amount > 0
    /\ a.target_price > 0
    /\ a.incentive >= 0 /\ a.incentive <= a.sell_amount
    /\ a.expiry > now
    /\ ~AddOverflows(a.sell_amount, a.incentive)

C11_Step ==
    (last'.op = "create_intent"
        /\ Authorized(last'.caller, last'.args.creator)
        /\ ValidTerms(last'.args)
        /\ get_balance(balances, last'.args.creator,
                       last'.args.sell_token).available
             < last'.args.sell_amount + last'.args.incentive) =>
        /\ last'.result = "InsufficientBalance"
        /\ balances' = balances
        /\ intents' = intents
        /\ counter' = counter
        /\ userIntents' = userIntents
C11_InsufficientBalance == [][C11_Step]_vars

\* A create_intent was refused although the creator's available and locked
\* funds together would have covered it.
C11_Witness ==
    /\ last.op = "create_intent"
    /\ last.result = "InsufficientBalance"
    /\ LET b == get_balance(balances, last.args.creator, last.args.sell_token)
       IN  /\ b.locked > 0
           /\ b.available + b.locked >= last.args.sell_amount + last.args.incentive

\* C12: a successful cancel_intent or admin_cancel_intent lowers the
\* creator's locked balance in the sell asset and raises the available
\* balance by exactly sell_amount + incentive and sets the status to
\* Cancelled; every later cancel_intent, admin_cancel_intent or
\* execute_intent on a Cancelled intent fails and changes nothing.
CancelOps == { "cancel_intent", "admin_cancel_intent" }

C12_Step ==
    (last'.op \in IntentOps /\ last'.args.intent_id \in DOMAIN intents) =>
        LET id     == last'.args.intent_id
            intent == intents[id]
            before == get_balance(balances, intent.creator, intent.sell_token)
            after  == get_balance(balances', intent.creator, intent.sell_token)
        IN  /\ (last'.op \in CancelOps /\ last'.result = Ok) =>
                /\ after.locked = before.locked - (intent.sell_amount + intent.incentive)
                /\ after.available = before.available + (intent.sell_amount + intent.incentive)
                /\ intents'[id].status = "Cancelled"
                /\ tok' = tok
            /\ intent.status = "Cancelled" =>
                /\ last'.result # Ok
                /\ intents'[id] = intent
                /\ balances' = balances
                /\ tok' = tok
C12_CancelEffect == [][C12_Step]_vars

\* The admin has tried to cancel an intent that its creator had already
\* cancelled; the funds are back in the creator's available balance.
C12_Witness ==
    /\ last.op = "admin_cancel_intent"
    /\ last.result = "IntentAlreadyExecuted"
    /\ LET intent == intents[last.args.intent_id]
       IN  /\ intent.status = "Cancelled"
           /\ intent.incentive > 0
           /\ get_balance(balances, intent.creator, intent.sell_token).available
                >= Total(intent)

\* C13: for an Active, unexpired intent, an authorized execute_intent with
\* buy_amount >= min_buy_amount (buy_amount * 10^7 representable) and
\* floor(buy_amount * 10^7 / sell_amount) < target_price fails with
\* PriceConditionNotMet, moves no tokens and leaves the intent Active and the
\* creator's balance unchanged.
PriceBelowTarget(buy_amount, intent) ==
    (buy_amount * PRICE_SCALE) \div intent.sell_amount < intent.target_price

C13_Step ==
    (last'.op = "execute_intent"
        /\ last'.args.intent_id \in DOMAIN intents
        /\ Authorized(last'.caller, last'.args.executor)) =>
        LET id     == last'.args.intent_id
            intent == intents[id]
            buy    == last'.args.buy_amount
        IN  (/\ intent.status = "Active"
             /\ now <= intent.expiry
             /\ buy >= intent.min_buy_amount
             /\ ~MulOverflows(buy, PRICE_SCALE)
             /\ PriceBelowTarget(buy, intent)) =>
                /\ last'.result = "PriceConditionNotMet"
                /\ tok' = tok
                /\ intents'[id] = intent
                /\ balances' = balances
C13_PriceFloor == [][C13_Step]_vars

\* An offer of min_buy_amount was refused for its price: 2 for 3 is a price
\* of 0.6666666 after rounding down, below the target of 0.6666667.
C13_Witness ==
    /\ last.op = "execute_intent"
    /\ last.result = "PriceConditionNotMet"
    /\ LET intent == intents[last.args.intent_id]
       IN  /\ last.args.buy_amount >= intent.min_buy_amount
           /\ intent.status = "Active"
           /\ (last.args.buy_amount * PRICE_SCALE) \div intent.sell_amount
                = intent.target_price - 1

\* C14: for an Active, unexpired intent, an authorized execute_intent whose
\* price floor(buy_amount * 10^7 / sell_amount) is below target_price fails
\* with PriceConditionNotMet whatever min_buy_amount is, also when
\* buy_amount is below min_buy_amount.
C14_Step ==
    (last'.op = "execute_intent"
        /\ last'.args.intent_id \in DOMAIN intents
        /\ Authorized(last'.caller, last'.args.executor)) =>
        LET intent == intents[last'.args.intent_id]
            buy    == last'.args.buy_amount
        IN  (/\ intent.status = "Active"
             /\ now <= intent.expiry
             /\ ~MulOverflows(buy, PRICE_SCALE)
             /\ PriceBelowTarget(buy, intent)) =>
                last'.result = "PriceConditionNotMet"
C14_PriceErrorWhateverMinBuy == [][C14_Step]_vars

\* C15: an authorized execute_intent reports the first failing check in the
\* order IntentNotFound (no such intent), IntentAlreadyExecuted (status not
\* Active), IntentExpired (time > expiry), MinBuyAmountNotMet (buy_amount <
\* min_buy_amount), PriceConditionNotMet (floor price < target_price); when
\* several conditions hold at once the earliest is the error returned, and
\* none of these errors is returned when its condition does not hold.
ExecuteChecks ==
    << "IntentNotFound", "IntentAlreadyExecuted", "IntentExpired",
       "MinBuyAmountNotMet", "PriceConditionNotMet" >>

CheckFails(k, id, buy) ==
    IF k = 1 THEN id \notin DOMAIN intents
    ELSE /\ id \in DOMAIN intents
         /\ CASE k = 2 -> intents[id].status # "Active"
              [] k = 3 -> now > intents[id].expiry
              [] k = 4 -> buy < intents[id].min_buy_amount
              [] k = 5 -> /\ ~MulOverflows(buy, PRICE_SCALE)
                          /\ PriceBelowTarget(buy, intents[id])

FailingChecks(id, buy) == { k \in 1 .. 5 : CheckFails(k, id, buy) }

FirstFailing(id, buy) ==
    CHOOSE k \in FailingChecks(id, buy) :
        \A j \in FailingChecks(id, buy) : k <= j

C15_Step ==
    (last'.op = "execute_intent"
        /\ Authorized(last'.caller, last'.args.executor)) =>
        LET id  == last'.args.intent_id
            buy == last'.args.buy_amount
        IN  /\ FailingChecks(id, buy) # {} =>
                last'.result = ExecuteChecks[FirstFailing(id, buy)]
            /\ FailingChecks(id, buy) = {} =>
                \A k \in 1 .. 5 : last'.result # ExecuteChecks[k]
Party(call) ==
    CASE call.op = "execute_intent"      -> call.args.executor
      [] call.op = "cancel_intent"       -> call.args.creator
      [] call.op = "admin_cancel_intent" -> call.args.admin

OnTerminalIntent(call) ==
    /\ call.op \in IntentOps
    /\ call.args.intent_id \in DOMAIN intents
    /\ intents[call.args.intent_id].status \in { "Executed", "Cancelled" }
    /\ Authorized(call.caller, Party(call))

\* C16 (as stated): every execute_intent, cancel_intent or
\* admin_cancel_intent call on an Executed or Cancelled intent fails with
\* IntentAlreadyExecuted, whoever the caller is, a cancel_intent caller who
\* is not the creator and an admin_cancel_intent caller who is not the admin
\* included.
C16_OriginalStep ==
    OnTerminalIntent(last') => last'.result = "IntentAlreadyExecuted"
C16_Original == [][C16_OriginalStep]_vars

\* C16 (amended): every such call on an Executed or Cancelled intent fails
\* and changes nothing.  The error is IntentAlreadyExecuted for
\* execute_intent, for cancel_intent called by the intent's creator and for
\* admin_cancel_intent called by the admin; cancel_intent by anybody else
\* fails with OnlyCreatorCanCancel and admin_cancel_intent by anybody else
\* with Unauthorized.
C16_AmendedStep ==
    OnTerminalIntent(last') =>
        LET intent == intents[last'.args.intent_id]
        IN  /\ last'.result =
                CASE last'.op = "execute_intent" -> "IntentAlreadyExecuted"
                  [] last'.op = "cancel_intent" ->
                        IF last'.args.creator = intent.creator
                        THEN "IntentAlreadyExecuted"
                        ELSE "OnlyCreatorCanCancel"
                  [] last'.op = "admin_cancel_intent" ->
                        IF admin # None /\ last'.args.admin = admin[1]
                        THEN "IntentAlreadyExecuted"
                        ELSE "Unauthorized"
            /\ intents' = intents
            /\ balances' = balances
            /\ tok' = tok
C16_Amended == [][C16_AmendedStep]_vars

\* Somebody other than the creator has tried to cancel an Executed intent
\* and was told OnlyCreatorCanCancel.
C16_Witness ==
    /\ last.op = "cancel_intent"
    /\ last.result = "OnlyCreatorCanCancel"
    /\ intents[last.args.intent_id].status = "Executed"
    /\ last.args.creator # intents[last.args.intent_id].creator

\* C17: the ledger time never decreases; an authorized execute_intent on an
\* Active intent fails with IntentExpired exactly when the ledger time is
\* strictly greater than expiry (at time = expiry it is not rejected for
\* expiry), and no intent becomes Executed at a time greater than its expiry.
C17_Step ==
    /\ now' >= now
    /\ (last'.op = "execute_intent"
        /\ last'.args.intent_id \in DOMAIN intents
        /\ Authorized(last'.caller, last'.args.executor)
        /\ intents[last'.args.intent_id].status = "Active") =>
            (last'.result = "IntentExpired"
                <=> now > intents[last'.args.intent_id].expiry)
    /\ \A id \in DOMAIN intents' :
        (intents'[id].status = "Executed"
            /\ (id \notin DOMAIN intents \/ intents[id].status # "Executed")) =>
                now' <= intents'[id].expiry
C17_ExpiryStrict == [][C17_Step]_vars

\* An intent has been executed at the very time of its expiry, after the
\* ledger time had advanced.
C17_Witness ==
    /\ Succeeded("execute_intent")
    /\ now > 0
    /\ now = intents[last.args.intent_id].expiry

\* C18: every successful execute_intent has buy_amount >= min_buy_amount and
\* buy_amount * 10^7 >= target_price * sell_amount (the exact ratio is never
\* below the target, the achieved price being rounded down before the
\* comparison), so the actual_buy_amount of every Executed intent meets both
\* of the creator's conditions.
MeetsCreatorConditions(intent, buy_amount) ==
    /\ buy_amount >= intent.min_buy_amount
    /\ buy_amount * PRICE_SCALE >= intent.target_price * intent.sell_amount

C18_CreatorConditions ==
    /\ Succeeded("execute_intent") =>
        MeetsCreatorConditions(intents[last.args.intent_id], last.args.buy_amount)
    /\ \A id \in DOMAIN intents :
        intents[id].status = "Executed" =>
            /\ intents[id].actual_buy_amount # None
            /\ MeetsCreatorConditions(intents[id], intents[id].actual_buy_amount[1])

\* An execution at the smallest amount the price admits: one unit less would
\* have been below the target ratio.
C18_Witness ==
    /\ Succeeded("execute_intent")
    /\ LET intent == intents[last.args.intent_id]
           buy    == last.args.buy_amount
       IN  /\ intent.status = "Executed"
           /\ buy > intent.min_buy_amount
           /\ (buy - 1) * PRICE_SCALE < intent.target_price * intent.sell_amount

\* C19: an authorized withdraw of amount > available fails with
\* InsufficientBalance, also when available + locked >= amount, and changes
\* nothing: locked funds cannot be withdrawn.  A successful withdraw lowers
\* available by exactly amount and leaves locked unchanged.
C19_Step ==
    (last'.op = "withdraw" /\ last'.args.amount > 0
        /\ Authorized(last'.caller, last'.args.to)) =>
        LET a      == last'.args
            before == get_balance(balances, a.to, a.token)
            after  == get_balance(balances', a.to, a.token)
        IN  /\ a.amount > before.available =>
                /\ last'.result = "InsufficientBalance"
                /\ balances' = balances
                /\ tok' = tok
            /\ last'.result = Ok =>
                /\ a.amount <= before.available
                /\ after.available = before.available - a.amount
                /\ after.locked = before.locked
C19_LockedNotWithdrawable == [][C19_Step]_vars

\* A withdrawal was refused although available and locked together, and the
\* escrow's holding, would have covered it.
C19_Witness ==
    /\ last.op = "withdraw"
    /\ last.result = "InsufficientBalance"
    /\ LET b == get_balance(balances, last.args.to, last.args.token)
       IN  /\ b.locked > 0
           /\ b.available > 0
           /\ b.available + b.locked >= last.args.amount
           /\ tok[<< Escrow, last.args.token >>] >= last.args.amount

\* C20: over any sequence of successful deposits and withdrawals of one user
\* on one asset (each amount > 0, no withdrawal above the current
\* available), available ends at its initial value plus the deposits minus
\* the withdrawals, locked is not changed by them, and the user's own token
\* balance changes by the opposite amount.  Stated per call (a deposit adds
\* its amount, a withdrawal subtracts it) and in closed form: from an empty
\* account, what the user holds outside plus available plus locked stays
\* what the user held at the start.
HeldAtStart(u, t) == IF << u, t >> \in InitialHoldings THEN Mint ELSE 0

C20_Step ==
    /\ (last'.op \in { "deposit", "withdraw" } /\ last'.result = Ok) =>
        LET a      == last'.args
            user   == IF last'.op = "deposit" THEN a.from ELSE a.to
            delta  == IF last'.op = "deposit" THEN a.amount ELSE 0 - a.amount
            before == get_balance(balances, user, a.token)
            after  == get_balance(balances', user, a.token)
        IN  /\ a.amount > 0
            /\ after.available = before.available + delta
            /\ after.available >= 0
            /\ after.locked = before.locked
            /\ tok'[<< user, a.token >>] = tok[<< user, a.token >>] - delta
            /\ tok'[<< Escrow, a.token >>] = tok[<< Escrow, a.token >>] + delta
            /\ \A u \in Addresses, t \in Tokens :
                << u, t >> # << user, a.token >> =>
                    /\ get_balance(balances', u, t) = get_balance(balances, u, t)
                    /\ tok'[<< u, t >>] = tok[<< u, t >>]
    /\ \A u \in Addresses, t \in Tokens :
        get_balance(balances', u, t).available
            = HeldAtStart(u, t) - tok'[<< u, t >>]
              - get_balance(balances', u, t).locked
C20_DepositWithdrawSum == [][C20_Step]_vars

\* A partial withdrawal after a deposit, with funds locked in an intent in
\* between: the user holds some tokens outside, some available and some
\* locked.
C20_Witness ==
    /\ Succeeded("withdraw")
    /\ last.args.amount < Mint
    /\ LET b == get_balance(balances, last.args.to, last.args.token)
       IN  /\ b.available > 0
           /\ b.locked > 0
           /\ tok[<< last.args.to, last.args.token >>] = last.args.amount
           /\ b.available + b.locked + last.args.amount
                = HeldAtStart(last.args.to, last.args.token)

\* C21: cancel_intent on an existing intent, authorized by a `creator`
\* argument that is not the intent's creator, fails with
\* OnlyCreatorCanCancel and changes nothing; an intent becomes Cancelled only
\* by a cancel_intent whose caller is its creator or an admin_cancel_intent
\* whose caller is the registered admin.
C21_Step ==
    /\ (last'.op = "cancel_intent"
        /\ last'.args.intent_id \in DOMAIN intents
        /\ Authorized(last'.caller, last'.args.creator)
        /\ last'.args.creator # intents[last'.args.intent_id].creator) =>
            /\ last'.result = "OnlyCreatorCanCancel"
            /\ UNCHANGED << store, tok >>
    /\ \A id \in DOMAIN intents :
        (intents[id].status # "Cancelled" /\ intents'[id].status = "Cancelled") =>
            /\ last'.args.intent_id = id
            /\ \/ /\ last'.op = "cancel_intent"
                  /\ last'.caller = intents[id].creator
               \/ /\ last'.op = "admin_cancel_intent"
                  /\ admin = Some(last'.caller)
C21_OnlyCreatorOrAdmin == [][C21_Step]_vars

\* Somebody who is neither the creator nor the admin has tried to cancel an
\* Active intent under their own authorization and was refused.
C21_Witness ==
    /\ last.op = "cancel_intent"
    /\ last.result = "OnlyCreatorCanCancel"
    /\ last.caller = last.args.creator
    /\ admin # Some(last.caller)
    /\ intents[last.args.intent_id].status = "Active"
    /\ get_balance(balances, intents[last.args.intent_id].creator,
                   intents[last.args.intent_id].sell_token).locked > 0

\* C22: admin_cancel_intent authorized by the registered admin on an Active
\* intent, whoever created it, succeeds with the effect of the creator's
\* cancel_intent: sell_amount + incentive moves from the creator's locked to
\* the creator's available balance, no other balance changes, no token
\* moves and the status becomes Cancelled; authorized by any other address
\* it fails with Unauthorized and changes nothing.
C22_Step ==
    (last'.op = "admin_cancel_intent"
        /\ Authorized(last'.caller, last'.args.admin)) =>
        LET id == last'.args.intent_id
        IN  /\ admin # Some(last'.args.admin) =>
                /\ last'.result = "Unauthorized"
                /\ UNCHANGED << store, tok >>
            /\ (admin = Some(last'.args.admin)
                /\ id \in DOMAIN intents
                /\ intents[id].status = "Active"
                /\ ~AddOverflows(get_balance(balances, intents[id].creator,
                                             intents[id].sell_token).available,
                                 Total(intents[id]))) =>
                LET intent == intents[id]
                    before == get_balance(balances, intent.creator, intent.sell_token)
                    after  == get_balance(balances', intent.creator, intent.sell_token)
                IN  /\ last'.result = Ok
                    /\ after.locked = before.locked - Total(intent)
                    /\ after.available = before.available + Total(intent)
                    /\ balances' = set_balance(balances, intent.creator,
                            intent.sell_token, UnlockFunds(before, Total(intent)))
                    /\ intents' = set_intent(intents, id, MarkCancelled(intent))
                    /\ tok' = tok
                    /\ UNCHANGED << counter, userIntents, admin, router, oracle >>
C22_AdminCancelAsCancel == [][C22_Step]_vars

\* The admin has cancelled another user's intent: the funds are in that
\* user's available balance and the admin holds no balance in the asset.
C22_Witness ==
    /\ Succeeded("admin_cancel_intent")
    /\ LET intent == intents[last.args.intent_id]
       IN  /\ intent.creator # last.caller
           /\ intent.status = "Cancelled"
           /\ get_balance(balances, intent.creator, intent.sell_token).available
                >= Total(intent)
           /\ get_balance(balances, last.caller, intent.sell_token) = ZeroBalance

\* C23: intent ids are unique and assigned in increasing order, starting at
\* 0 and growing by exactly 1 per successful create_intent: the stored ids
\* are always 0 .. n-1 for a counter of n; a failed create_intent, and every
\* other call, consumes no id; the id inside an intent record is the key it
\* is stored under and the value returned to the caller.
C23_Step ==
    /\ DOMAIN intents' = 0 .. (CounterValue(counter') - 1)
    /\ \A id \in DOMAIN intents' : intents'[id].id = id
    /\ IF last'.op = "create_intent" /\ last'.result = Ok
       THEN /\ last'.ret = Some(CounterValue(counter))
            /\ CounterValue(counter') = CounterValue(counter) + 1
            /\ DOMAIN intents' = DOMAIN intents \cup { CounterValue(counter) }
            /\ CounterValue(counter) \notin DOMAIN intents
            /\ \A id \in DOMAIN intents : id < CounterValue(counter)
            /\ intents'[last'.ret[1]].id = last'.ret[1]
       ELSE /\ counter' = counter
            /\ DOMAIN intents' = DOMAIN intents
C23_IntentIds == [][C23_Step]_vars

\* The second intent has been created, by another user than the first: it
\* got id 1.
C23_Witness ==
    /\ Succeeded("create_intent")
    /\ last.ret = Some(1)
    /\ counter = Some(2)
    /\ DOMAIN intents = { 0, 1 }
    /\ intents[0].id = 0 /\ intents[1].id = 1
    /\ intents[0].creator # intents[1].creator

\* C24: for every user, get_user_intents is exactly the ids of the intents
\* that user created, each once, in creation order (which is the order of
\* the ids); no id is in the index of a user who is not its creator; the
\* index only grows, by appending: execute and cancel never remove or
\* reorder entries.
CreatedBy(its, user) == { id \in DOMAIN its : its[id].creator = user }

IsIndexOf(seq, ids) ==
    /\ Len(seq) = Cardinality(ids)
    /\ \A i \in 1 .. Len(seq) : seq[i] \in ids
    /\ \A i \in 1 .. Len(seq), j \in 1 .. Len(seq) : i < j => seq[i] < seq[j]

IsPrefix(s, t) ==
    /\ Len(s) <= Len(t)
    /\ \A i \in 1 .. Len(s) : t[i] = s[i]

C24_Step ==
    \A u \in Addresses :
        /\ IsIndexOf(get_user_intents(userIntents', u), CreatedBy(intents', u))
        /\ IsPrefix(get_user_intents(userIntents, u),
                    get_user_intents(userIntents', u))
        /\ (last'.op # "create_intent" \/ last'.result # Ok) =>
                get_user_intents(userIntents', u) = get_user_intents(userIntents, u)
C24_UserIndex == [][C24_Step]_vars

\* A user with two intents has had the first one executed and has just
\* cancelled the second: the index still lists both, in creation order.
C24_Witness ==
    /\ Succeeded("cancel_intent")
    /\ get_user_intents(userIntents, last.caller) = << 0, 1 >>
    /\ intents[0].status = "Executed"
    /\ intents[1].status = "Cancelled"

\* C25: an authorized create_intent is rejected, with no state change, for
\* sell_amount <= 0 or min_buy_amount <= 0 (InvalidAmount), target_price <= 0
\* (InvalidPrice), incentive < 0 or incentive > sell_amount (InvalidAmount)
\* and expiry <= ledger time (IntentExpired), the first of these in this
\* order naming the error; hence every stored intent has sell_amount > 0,
\* min_buy_amount > 0, target_price > 0, 0 <= incentive <= sell_amount, and
\* was created at a time strictly before its expiry.
TermsError(a) ==
    IF a.sell_amount <= 0 \/ a.min_buy_amount <= 0 THEN "InvalidAmount"
    ELSE IF a.target_price <= 0 THEN "InvalidPrice"
    ELSE IF a.incentive < 0 \/ a.incentive > a.sell_amount THEN "InvalidAmount"
    ELSE IF a.expiry <= now THEN "IntentExpired"
    ELSE Ok

WellFormed(intent) ==
    /\ intent.sell_amount > 0
    /\ intent.min_buy_amount > 0
    /\ intent.target_price > 0
    /\ intent.incentive >= 0
    /\ intent.incentive <= intent.sell_amount

C25_Step ==
    /\ (last'.op = "create_intent"
        /\ Authorized(last'.caller, last'.args.creator)
        /\ TermsError(last'.args) # Ok) =>
            /\ last'.result = TermsError(last'.args)
            /\ UNCHANGED << store, tok >>
    /\ (last'.op = "create_intent" /\ last'.result = Ok) =>
            /\ TermsError(last'.args) = Ok
            /\ intents'[last'.ret[1]].expiry > now
    /\ \A id \in DOMAIN intents' : WellFormed(intents'[id])
C25_ValidatedTerms == [][C25_Step]_vars

\* An order was refused for its incentive alone: the other terms are valid
\* and the creator's available balance would have covered it.
C25_Witness ==
    /\ last.op = "create_intent"
    /\ last.result = "InvalidAmount"
    /\ last.args.sell_amount > 0
    /\ last.args.min_buy_amount > 0
    /\ last.args.target_price > 0
    /\ last.args.incentive > last.args.sell_amount
    /\ last.args.expiry > now
    /\ get_balance(balances, last.args.creator, last.args.sell_token).available
         >= last.args.sell_amount + last.args.incentive

\* C26: set_router and set_oracle succeed only when called by, and with the
\* address of, the registered admin, and then replace only the router,
\* respectively the oracle, address; with any other address they fail with
\* Unauthorized and leave the configuration unchanged; in no case do they
\* change a balance, an intent, the id counter or a user index.
ConfigOps == { "set_router", "set_oracle" }

C26_Step ==
    last'.op \in ConfigOps =>
        /\ UNCHANGED << balances, intents, counter, userIntents, admin, tok >>
        /\ last'.op = "set_router" => oracle' = oracle
        /\ last'.op = "set_oracle" => router' = router
        /\ IF last'.result = Ok
           THEN /\ admin = Some(last'.args.admin)
                /\ last'.caller = last'.args.admin
                /\ last'.op = "set_router" => router' = Some(last'.args.router)
                /\ last'.op = "set_oracle" => oracle' = Some(last'.args.oracle)
           ELSE UNCHANGED << router, oracle >>
        /\ Authorized(last'.caller, last'.args.admin) =>
            last'.result = IF admin = Some(last'.args.admin)
                           THEN Ok ELSE "Unauthorized"
C26_ConfigOnly == [][C26_Step]_vars

\* The admin has replaced the oracle while funds were locked in an intent:
\* the router is still the one given to the constructor.
C26_Witness ==
    /\ Succeeded("set_oracle")
    /\ oracle = Some(last.args.oracle)
    /\ oracle # router
    /\ \E id \in DOMAIN intents : intents[id].status = "Active"

\* C27: after creation an intent's id, creator, sell asset, sell_amount, buy
\* asset, min_buy_amount, target_price, incentive and expiry never change;
\* executor and actual_buy_amount are set if and only if the status is
\* Executed (unset while Active and after Cancelled) and never change once
\* set.
Terms(intent) ==
    << intent.id, intent.creator, intent.sell_token, intent.sell_amount,
       intent.buy_token, intent.min_buy_amount, intent.target_price,
       intent.incentive, intent.expiry >>

C27_Step ==
    /\ \A id \in DOMAIN intents :
        /\ id \in DOMAIN intents'
        /\ Terms(intents'[id]) = Terms(intents[id])
        /\ intents[id].executor # None =>
                intents'[id].executor = intents[id].executor
        /\ intents[id].actual_buy_amount # None =>
                intents'[id].actual_buy_amount = intents[id].actual_buy_amount
    /\ \A id \in DOMAIN intents' :
        /\ intents'[id].executor # None <=> intents'[id].status = "Executed"
        /\ intents'[id].actual_buy_amount # None <=> intents'[id].status = "Executed"
C27_ImmutableTerms == [][C27_Step]_vars

\* One intent has been executed and another has then been cancelled: the
\* first carries its executor and amount, the second carries neither.
C27_Witness ==
    /\ Succeeded("cancel_intent")
    /\ \E i \in DOMAIN intents, j \in DOMAIN intents :
        /\ intents[i].status = "Executed"
        /\ intents[i].executor # None
        /\ intents[i].actual_buy_amount # None
        /\ j = last.args.intent_id
        /\ intents[j].status = "Cancelled"
        /\ intents[j].executor = None
        /\ intents[j].actual_buy_amount = None

\* C28: execute_intent succeeds only if, before the call, the executor
\* already holds at least buy_amount of the buy asset, for every choice of
\* sell and buy asset that create_intent accepts.
C28_Step ==
    (last'.op = "execute_intent" /\ last'.result = Ok) =>
        tok[<< last'.args.executor,
               intents[last'.args.intent_id].buy_token >>]
            >= last'.args.buy_amount
C28_ExecutorHoldsBuyAmount == [][C28_Step]_vars

\* C29: get_intent, get_balance, get_user_intents and
\* check_intent_executable never change persisted state and need no
\* authorization: whoever calls, the first three return what is stored;
\* check_intent_executable fails with IntentNotFound for an unknown id and
\* returns (false, 0) for an intent that is not Active or whose expiry is
\* before the ledger time.
ReadOps ==
    { "get_intent", "get_balance", "get_user_intents", "check_intent_executable" }

C29_Step ==
    last'.op \in ReadOps =>
        /\ UNCHANGED << store, tok >>
        /\ last'.result # HostAuthError
        /\ last'.op = "get_intent" =>
            /\ last'.result = Ok
            /\ last'.ret = Some(IF last'.args.intent_id \in DOMAIN intents
                                THEN Some(intents[last'.args.intent_id])
                                ELSE None)
        /\ last'.op = "get_balance" =>
            /\ last'.result = Ok
            /\ last'.ret = Some(IF << last'.args.user, last'.args.token >>
                                        \in DOMAIN balances
                                THEN balances[<< last'.args.user, last'.args.token >>]
                                ELSE [available |-> 0, locked |-> 0])
        /\ last'.op = "get_user_intents" =>
            /\ last'.result = Ok
            /\ last'.ret = Some(IF last'.args.user \in DOMAIN userIntents
                                THEN userIntents[last'.args.user]
                                ELSE << >>)
        /\ last'.op = "check_intent_executable" =>
            LET id == last'.args.intent_id
            IN  /\ id \notin DOMAIN intents =>
                    last'.result = "IntentNotFound"
                /\ (id \in DOMAIN intents
                    /\ (intents[id].status # "Active" \/ intents[id].expiry < now)) =>
                        /\ last'.result = Ok
                        /\ last'.ret = Some(<< FALSE, 0 >>)
C29_ReadsArePure == [][C29_Step]_vars

\* Somebody who is neither the creator nor the admin has asked about an
\* Active intent whose expiry has passed and was told (false, 0).
C29_Witness ==
    /\ last.op = "check_intent_executable"
    /\ last.result = Ok
    /\ last.ret = Some(<< FALSE, 0 >>)
    /\ LET intent == intents[last.args.intent_id]
       IN  /\ intent.status = "Active"
           /\ intent.expiry < now
           /\ last.caller # intent.creator
           /\ admin # Some(last.caller)

\* C30: funds are never permanently locked.  In every reachable state, for
\* every Active intent, expired or not, a cancel_intent call authorized by
\* its creator succeeds; the call returns exactly sell_amount + incentive
\* from locked to available, and right after it a withdrawal of that amount
\* by the creator succeeds.  A step in which only time passes changes no
\* intent and no balance, and an expired Active intent leaves Active only
\* through a cancellation.
C30_CancelSucceeds ==
    \A id \in DOMAIN intents :
        intents[id].status = "Active" =>
            CancelIntentResult(intents[id].creator, id, intents[id].creator) = Ok

C30_WithdrawableAfterCancel ==
    Succeeded("cancel_intent") =>
        LET intent == intents[last.args.intent_id]
        IN  WithdrawResult(intent.creator, intent.sell_token, Total(intent),
                           intent.creator) = Ok

C30_Step ==
    /\ (last'.op = "cancel_intent" /\ last'.result = Ok) =>
        LET intent == intents[last'.args.intent_id]
            before == get_balance(balances, intent.creator, intent.sell_token)
            after  == get_balance(balances', intent.creator, intent.sell_token)
        IN  /\ intent.status = "Active"
            /\ after.available = before.available + Total(intent)
            /\ after.locked = before.locked - Total(intent)
    /\ now' # now => UNCHANGED << store, tok >>
    /\ \A id \in DOMAIN intents :
        (/\ intents[id].status = "Active"
         /\ intents[id].expiry < now
         /\ intents'[id].status # "Active") =>
            /\ last'.op \in CancelOps
            /\ intents'[id].status = "Cancelled"
C30_NeverLocked ==
    /\ [](C30_CancelSucceeds /\ C30_WithdrawableAfterCancel)
    /\ [][C30_Step]_vars

\* The creator has cancelled an intent whose expiry had passed.
C30_Witness ==
    /\ Succeeded("cancel_intent")
    /\ last.caller = last.args.creator
    /\ LET intent == intents[last.args.intent_id]
       IN  /\ intent.status = "Cancelled"
           /\ intent.expiry < now
           /\ get_balance(balances, intent.creator,
                          intent.sell_token).available >= Total(intent)

\* C31: a user's custodial balance available + locked in an asset goes down
\* only in a successful withdraw of that asset authorized by that user, by
\* the amount withdrawn, or in a successful execute_intent of one of that
\* user's own Active intents selling that asset, by exactly that intent's
\* sell_amount + incentive.  No other call (deposit, create_intent,
\* cancel_intent, admin_cancel_intent, execute_intent of somebody else's
\* intent, set_router, set_oracle, a read) lowers it.
Custody(bal, user, token) ==
    get_balance(bal, user, token).available + get_balance(bal, user, token).locked

OwnWithdraw(call, user, token) ==
    /\ call.op = "withdraw"
    /\ call.result = Ok
    /\ call.args.to = user
    /\ call.args.token = token
    /\ Authorized(call.caller, user)

ExecuteOfOwnIntent(call, user, token) ==
    /\ call.op = "execute_intent"
    /\ call.result = Ok
    /\ call.args.intent_id \in DOMAIN intents
    /\ intents[call.args.intent_id].creator = user
    /\ intents[call.args.intent_id].sell_token = token
    /\ intents[call.args.intent_id].status = "Active"

C31_Step ==
    \A user \in Addresses, token \in Tokens :
        Custody(balances', user, token) < Custody(balances, user, token) =>
            \/ /\ OwnWithdraw(last', user, token)
               /\ Custody(balances', user, token)
                    = Custody(balances, user, token) - last'.args.amount
            \/ /\ ExecuteOfOwnIntent(last', user, token)
               /\ Custody(balances', user, token)
                    = Custody(balances, user, token)
                        - Total(intents[last'.args.intent_id])
C31_CustodyDecrease == [][C31_Step]_vars

\* Somebody else has executed an intent of a creator who had deposited the
\* whole holding: the creator's custody is down by sell_amount + incentive.
C31_Witness ==
    /\ Succeeded("execute_intent")
    /\ LET intent == intents[last.args.intent_id]
       IN  /\ last.caller # intent.creator
           /\ last.args.executor # intent.creator
           /\ intent.sell_token # intent.buy_token
           /\ tok[<< intent.creator, intent.sell_token >>] = 0
           /\ Custody(balances, intent.creator, intent.sell_token)
                = HeldAtStart(intent.creator, intent.sell_token) - Total(intent)

\* The operations that write a Balance record, and the record each names:
\* the (user, asset) of a deposit or withdraw, the creator's record for the
\* sell asset of a create_intent, execute_intent or cancellation.
BalanceOps ==
    { "deposit", "withdraw", "create_intent", "execute_intent",
      "cancel_intent", "admin_cancel_intent" }

BalanceKey(call) ==
    CASE call.op = "deposit"       -> << call.args.from, call.args.token >>
      [] call.op = "withdraw"      -> << call.args.to, call.args.token >>
      [] call.op = "create_intent" -> << call.args.creator, call.args.sell_token >>
      [] OTHER -> << intents[call.args.intent_id].creator,
                     intents[call.args.intent_id].sell_token >>

RecordUnchanged(k) ==
    (k \in DOMAIN balances \/ k \in DOMAIN balances') =>
        /\ k \in DOMAIN balances
        /\ k \in DOMAIN balances'
        /\ balances'[k] = balances[k]

\* C32 as stated: a successful execute_intent changes the creator's record
\* for the sell asset and leaves unchanged every record of the executor, the
\* creator's record for the buy asset and every other user's record.
C32_OriginalStep ==
    (last'.op = "execute_intent" /\ last'.result = Ok) =>
        LET intent   == intents[last'.args.intent_id]
            executor == last'.args.executor
        IN  /\ balances'[BalanceKey(last')] # get_balance(balances,
                                    intent.creator, intent.sell_token)
            /\ \A token \in Tokens : RecordUnchanged(<< executor, token >>)
            /\ RecordUnchanged(<< intent.creator, intent.buy_token >>)
            /\ \A user \in Addresses \ { intent.creator, executor },
                  token \in Tokens : RecordUnchanged(<< user, token >>)
C32_Original == [][C32_OriginalStep]_vars

\* C32 (amended): a successful execute_intent changes exactly one Balance
\* record, the creator's record for the sell asset, whose locked goes down
\* and whose available stays; every other record (the executor's records
\* when the executor is not the creator, the creator's record for the buy
\* asset when it differs from the sell asset, all other users' records) is
\* unchanged.  A successful create_intent, cancel_intent or
\* admin_cancel_intent changes only the creator's record for the sell asset,
\* a successful deposit or withdraw only the named (user, asset) record.
C32_AmendedStep ==
    (last'.op \in BalanceOps /\ last'.result = Ok) =>
        LET key == BalanceKey(last')
        IN  /\ key \in DOMAIN balances'
            /\ \A user \in Addresses, token \in Tokens :
                << user, token >> # key => RecordUnchanged(<< user, token >>)
            /\ DOMAIN balances' \subseteq Addresses \X Tokens
            /\ last'.op = "execute_intent" =>
                /\ balances'[key] # get_balance(balances, key[1], key[2])
                /\ balances'[key].available
                        = get_balance(balances, key[1], key[2]).available
                /\ balances'[key].locked
                        < get_balance(balances, key[1], key[2]).locked
C32_Amended == [][C32_AmendedStep]_vars

\* An executor other than the creator has executed an intent whose assets
\* differ while another Balance record held funds.
C32_Witness ==
    /\ Succeeded("execute_intent")
    /\ LET intent == intents[last.args.intent_id]
       IN  /\ last.args.executor # intent.creator
           /\ intent.sell_token # intent.buy_token
           /\ \E k \in DOMAIN balances \ {<< intent.creator, intent.sell_token >>} :
                balances[k].available + balances[k].locked > 0

\* C33: the admin registered by the constructor is never changed: no step
\* of any operation alters the ADMIN entry, and in every reachable state the
\* (caller, admin argument) pairs that pass the admin check of set_router,
\* of set_oracle and of admin_cancel_intent are the same, namely the
\* constructor's admin calling in its own name.
NotRefused(res) == res \notin { HostAuthError, "Unauthorized" }

AdminCallers ==
    [ set_router |->
        { p \in Addresses \X Addresses : NotRefused(SetRouterResult(p[1], p[2])) },
      set_oracle |->
        { p \in Addresses \X Addresses : NotRefused(SetOracleResult(p[1], p[2])) },
      admin_cancel_intent |->
        { p \in Addresses \X Addresses :
            \A id \in 0 .. MaxIntents - 1 :
                NotRefused(AdminCancelIntentResult(p[1], id, p[2])) } ]

C33_AdminIsConstructors ==
    /\ admin = Some("u1")
    /\ AdminCallers = [ set_router |-> { << "u1", "u1" >> },
                        set_oracle |-> { << "u1", "u1" >> },
                        admin_cancel_intent |-> { << "u1", "u1" >> } ]

C33_Step == admin' = admin
C33_AdminFixed == []C33_AdminIsConstructors /\ [][C33_Step]_vars

\* The admin has just replaced the oracle, after having replaced the router
\* and with an intent cancelled, and is still the constructor's admin.
C33_Witness ==
    /\ Succeeded("set_oracle")
    /\ oracle = Some("c2")
    /\ router = Some("c2")
    /\ \E id \in DOMAIN intents : intents[id].status = "Cancelled"
    /\ admin = Some("u1")

====
